---- MODULE Spec2Model ----
(***************************************************************************)
(* The timer state machine of gpotti/timercode.                            *)
(*                                                                         *)
(* The repository holds two variants of the same timer:                    *)
(*   - src/timer.c           (TimerState: value, enabled, interrupt flag   *)
(*                            and an explicit mode; every function void,   *)
(*                            MAX_DURATION 10)                             *)
(*   - src/unnamed/part_000  (Timer: value, enabled, interrupt flag, no    *)
(*                            mode; set/decrement/trigger return bool,     *)
(*                            MAX_DURATION 255)                            *)
(* `state` is the TimerState of src/timer.c, `timer` the Timer of          *)
(* src/unnamed/part_000; `variant` says which of the two the driver calls  *)
(* ("modes": src/timer.c, "plain": src/unnamed/part_000, "both": the two   *)
(* side by side on the same sequence of calls, "same": side by side with   *)
(* src/unnamed/part_000 given the MAX_DURATION of src/timer.c).            *)
(* Names of src/unnamed/part_000 that clash with src/timer.c carry a       *)
(* trailing 0 (initTimer0, MAX_DURATION0, ...).                            *)
(***************************************************************************)
EXTENDS Integers, FiniteSets, Sequences, TLC

VARIABLES
    variant,    \* which source file the driver is built against
    state,      \* TimerState of src/timer.c
    timer,      \* Timer of src/unnamed/part_000
    op,         \* the operation called last ("none" before any call)
    prev_op,    \* the operation called before it
    ret,        \* what the call returned ("void": nothing; every function
                \* of src/timer.c is void)
    duration,   \* argument of the latest configure call, while the run of
                \* calls it started is tracked (0 when none is)
    ndec,       \* decrement calls made directly after a configure call with
                \* a duration in range, while nothing else was called and at
                \* most `duration` of them; kept by an interrupt check that
                \* directly follows the duration-th decrement; -1 otherwise
    cfg,        \* the duration of the latest configure call if it was in
                \* range and no reset has followed (0 otherwise)
    napplied,   \* decrements applied since that configure call
    nfired      \* interrupts fired since that configure call (2: several)

vars == <<variant, state, timer, op, prev_op, ret, duration, ndec,
          cfg, napplied, nfired>>

----------------------------------------------------------------------------
(* Program constants *)

\* src/timer.c:12
MAX_DURATION == 10

\* src/unnamed/part_000:22
MAX_DURATION0 == 255

\* src/timer.c:17-21
MODE_DISABLED == "MODE_DISABLED"
MODE_COUNTDOWN == "MODE_COUNTDOWN"
MODE_STOPWATCH == "MODE_STOPWATCH"
TimerMode == {MODE_DISABLED, MODE_COUNTDOWN, MODE_STOPWATCH}

----------------------------------------------------------------------------
(* Bounds of the model *)

\* Arguments of a configure call are drawn around 0 and around each
\* variant's MAX_DURATION, this far on either side.
ArgMargin == 2

\* incrementStopwatch has no ceiling in the code; the model stops applying
\* it this far above MAX_DURATION.
Overshoot == 3

Min(a, b) == IF a <= b THEN a ELSE b

Durations ==
    ((0 - ArgMargin)..(MAX_DURATION + ArgMargin))
        \cup ((MAX_DURATION0 - ArgMargin)..(MAX_DURATION0 + ArgMargin))

----------------------------------------------------------------------------
(* src/timer.c *)

\* src/timer.c:26-31
TimerState ==
    [timer_value : 0..(MAX_DURATION + Overshoot),
     timer_enabled : BOOLEAN,
     interrupt_flag : BOOLEAN,
     timer_mode : TimerMode]

\* src/timer.c:37-42
initTimer ==
    [timer_value |-> 0,
     timer_enabled |-> FALSE,
     interrupt_flag |-> FALSE,
     timer_mode |-> MODE_DISABLED]

\* setCountdownTimer without the check against MAX_DURATION.
setCountdownTimer_NoCeiling(s, value) ==
    IF value > 0
    THEN [s EXCEPT !.timer_value = value,
                   !.timer_enabled = TRUE,
                   !.interrupt_flag = FALSE,
                   !.timer_mode = MODE_COUNTDOWN]
    ELSE s

\* setCountdownTimer that forgets to clear the interrupt flag.
setCountdownTimer_KeepsFlag(s, value) ==
    IF value > 0 /\ value <= MAX_DURATION
    THEN [s EXCEPT !.timer_value = value,
                   !.timer_enabled = TRUE,
                   !.timer_mode = MODE_COUNTDOWN]
    ELSE s

\* setCountdownTimer that forgets to enter Countdown mode.
setCountdownTimer_KeepsMode(s, value) ==
    IF value > 0 /\ value <= MAX_DURATION
    THEN [s EXCEPT !.timer_value = value,
                   !.timer_enabled = TRUE,
                   !.interrupt_flag = FALSE]
    ELSE s

\* src/timer.c:49-56
setCountdownTimer(s, value) ==
    IF value > 0 /\ value <= MAX_DURATION
    THEN [s EXCEPT !.timer_value = value,
                   !.timer_enabled = TRUE,
                   !.interrupt_flag = FALSE,
                   !.timer_mode = MODE_COUNTDOWN]
    ELSE s

\* decrementTimer that stops one tick early (value > 1 for value > 0).
decrementTimer_StopsAtOne(s) ==
    IF s.timer_enabled /\ s.timer_mode = MODE_COUNTDOWN /\ s.timer_value > 1
    THEN [s EXCEPT !.timer_value = s.timer_value - 1]
    ELSE s

\* decrementTimer without the mode check (the guard of the mode-less file).
decrementTimer_AnyMode(s) ==
    IF s.timer_enabled /\ s.timer_value > 0
    THEN [s EXCEPT !.timer_value = s.timer_value - 1]
    ELSE s

\* decrementTimer that delivers the interrupt itself on reaching 0.
decrementTimer_AutoFires(s) ==
    IF s.timer_enabled /\ s.timer_mode = MODE_COUNTDOWN /\ s.timer_value > 0
    THEN IF s.timer_value = 1
         THEN [s EXCEPT !.timer_value = 0,
                        !.interrupt_flag = TRUE,
                        !.timer_enabled = FALSE,
                        !.timer_mode = MODE_DISABLED]
         ELSE [s EXCEPT !.timer_value = s.timer_value - 1]
    ELSE s

\* src/timer.c:62-66
decrementTimer(s) ==
    IF s.timer_enabled /\ s.timer_mode = MODE_COUNTDOWN /\ s.timer_value > 0
    THEN [s EXCEPT !.timer_value = s.timer_value - 1]
    ELSE s

\* incrementStopwatch without the mode check.
incrementStopwatch_AnyMode(s) ==
    IF s.timer_enabled
    THEN [s EXCEPT !.timer_value = s.timer_value + 1]
    ELSE s

\* src/timer.c:72-76
incrementStopwatch(s) ==
    IF s.timer_enabled /\ s.timer_mode = MODE_STOPWATCH
    THEN [s EXCEPT !.timer_value = s.timer_value + 1]
    ELSE s

\* triggerInterrupt that forgets to leave Countdown mode.
triggerInterrupt_KeepsMode(s) ==
    IF s.timer_enabled /\ s.timer_mode = MODE_COUNTDOWN /\ s.timer_value = 0
    THEN [s EXCEPT !.interrupt_flag = TRUE,
                   !.timer_enabled = FALSE]
    ELSE s

\* triggerInterrupt that forgets to disable the timer.
triggerInterrupt_StaysEnabled(s) ==
    IF s.timer_enabled /\ s.timer_mode = MODE_COUNTDOWN /\ s.timer_value = 0
    THEN [s EXCEPT !.interrupt_flag = TRUE,
                   !.timer_mode = MODE_DISABLED]
    ELSE s

\* src/timer.c:82-88
triggerInterrupt(s) ==
    IF s.timer_enabled /\ s.timer_mode = MODE_COUNTDOWN /\ s.timer_value = 0
    THEN [s EXCEPT !.interrupt_flag = TRUE,
                   !.timer_enabled = FALSE,
                   !.timer_mode = MODE_DISABLED]
    ELSE s

\* resetTimer that forgets to clear the interrupt flag.
resetTimer_KeepsFlag(s) ==
    [s EXCEPT !.timer_value = 0,
              !.timer_enabled = FALSE,
              !.timer_mode = MODE_DISABLED]

\* src/timer.c:94-99
resetTimer(s) ==
    [s EXCEPT !.timer_value = 0,
              !.timer_enabled = FALSE,
              !.interrupt_flag = FALSE,
              !.timer_mode = MODE_DISABLED]

----------------------------------------------------------------------------
(* src/unnamed/part_000: a call yields the Timer it leaves and its result *)

\* src/unnamed/part_000:28-32
Timer ==
    [value : 0..MAX_DURATION0,
     enabled : BOOLEAN,
     interrupt_flag : BOOLEAN]

\* src/unnamed/part_000:39-43
initTimer0 ==
    [value |-> 0, enabled |-> FALSE, interrupt_flag |-> FALSE]

\* setTimer that clamps a duration above MAX_DURATION instead of rejecting it.
setTimer_Clamps(t, d) ==
    IF d > 0
    THEN [timer |-> [t EXCEPT !.value = Min(d, MAX_DURATION0),
                              !.enabled = TRUE,
                              !.interrupt_flag = FALSE],
          ret |-> "true"]
    ELSE [timer |-> t, ret |-> "false"]

\* setTimer that forgets to clear the interrupt flag.
setTimer_KeepsFlag(t, d) ==
    IF d > 0 /\ d <= MAX_DURATION0
    THEN [timer |-> [t EXCEPT !.value = d, !.enabled = TRUE],
          ret |-> "true"]
    ELSE [timer |-> t, ret |-> "false"]

\* src/unnamed/part_000:53-61
setTimer(t, d) ==
    IF d > 0 /\ d <= MAX_DURATION0
    THEN [timer |-> [t EXCEPT !.value = d,
                              !.enabled = TRUE,
                              !.interrupt_flag = FALSE],
          ret |-> "true"]
    ELSE [timer |-> t, ret |-> "false"]

\* decrementTimer that raises the interrupt itself on reaching 0.
decrementTimer0_AutoFires(t) ==
    IF t.enabled /\ t.value > 0
    THEN [timer |-> [t EXCEPT !.value = t.value - 1,
                              !.interrupt_flag = (t.value = 1)],
          ret |-> "true"]
    ELSE [timer |-> t, ret |-> "false"]

\* decrementTimer that reports success whether or not it decremented.
decrementTimer0_ReturnsTrue(t) ==
    IF t.enabled /\ t.value > 0
    THEN [timer |-> [t EXCEPT !.value = t.value - 1], ret |-> "true"]
    ELSE [timer |-> t, ret |-> "true"]

\* decrementTimer that stops one tick early (value > 1 for value > 0).
decrementTimer0_StopsAtOne(t) ==
    IF t.enabled /\ t.value > 1
    THEN [timer |-> [t EXCEPT !.value = t.value - 1], ret |-> "true"]
    ELSE [timer |-> t, ret |-> "false"]

\* src/unnamed/part_000:69-75
decrementTimer0(t) ==
    IF t.enabled /\ t.value > 0
    THEN [timer |-> [t EXCEPT !.value = t.value - 1], ret |-> "true"]
    ELSE [timer |-> t, ret |-> "false"]

\* triggerInterrupt that forgets to disable the timer.
triggerInterrupt0_StaysEnabled(t) ==
    IF t.enabled /\ t.value = 0
    THEN [timer |-> [t EXCEPT !.interrupt_flag = TRUE], ret |-> "true"]
    ELSE [timer |-> t, ret |-> "false"]

\* triggerInterrupt without the check that the value reached 0.
triggerInterrupt0_NoZeroCheck(t) ==
    IF t.enabled
    THEN [timer |-> [t EXCEPT !.interrupt_flag = TRUE, !.enabled = FALSE],
          ret |-> "true"]
    ELSE [timer |-> t, ret |-> "false"]

\* src/unnamed/part_000:83-90
triggerInterrupt0(t) ==
    IF t.enabled /\ t.value = 0
    THEN [timer |-> [t EXCEPT !.interrupt_flag = TRUE, !.enabled = FALSE],
          ret |-> "true"]
    ELSE [timer |-> t, ret |-> "false"]

\* setTimer of src/unnamed/part_000:53-61 with line 22 defining
\* MAX_DURATION as src/timer.c:12 does.
setTimerSame(t, d) ==
    IF d > 0 /\ d <= MAX_DURATION
    THEN [timer |-> [t EXCEPT !.value = d,
                              !.enabled = TRUE,
                              !.interrupt_flag = FALSE],
          ret |-> "true"]
    ELSE [timer |-> t, ret |-> "false"]

\* resetTimer that forgets to clear the value.
resetTimer0_KeepsValue(t) ==
    [t EXCEPT !.enabled = FALSE, !.interrupt_flag = FALSE]

\* src/unnamed/part_000:97-101
resetTimer0(t) ==
    [t EXCEPT !.value = 0, !.enabled = FALSE, !.interrupt_flag = FALSE]

----------------------------------------------------------------------------
(* The calls a driver makes *)

Modes == variant \in {"modes", "both", "same"}
Plain == variant \in {"plain", "both", "same"}

\* setTimer as the driven build has it.
SetTimer(t, d) ==
    IF variant = "same" THEN setTimerSame(t, d) ELSE setTimer(t, d)

\* The durations the driven file documents as valid (src/timer.c:47,
\* src/unnamed/part_000:49-51).
InRange(d) ==
    /\ d >= 1
    /\ Modes => d <= MAX_DURATION
    /\ Plain => d <= MAX_DURATION0

\* What the calls do to the driven structure(s).
DecrementApplies ==
    \/ Modes /\ decrementTimer(state) # state
    \/ Plain /\ decrementTimer0(timer).ret = "true"

TriggerFires ==
    \/ Modes /\ triggerInterrupt(state) # state
    \/ Plain /\ triggerInterrupt0(timer).ret = "true"

\* No configured countdown is being followed.
NoCountdown ==
    /\ cfg' = 0
    /\ napplied' = 0
    /\ nfired' = 0

\* A call other than decrement and the interrupt check ends the tracked run.
EndRun ==
    /\ ndec' = -1
    /\ duration' = 0

\* configureCountdown(d): setCountdownTimer (src/timer.c), setTimer
\* (src/unnamed/part_000)
ConfigureCountdown ==
    \E d \in Durations :
        /\ state' = IF Modes THEN setCountdownTimer(state, d) ELSE state
        /\ timer' = IF Plain THEN SetTimer(timer, d).timer ELSE timer
        /\ ret' = IF Plain THEN SetTimer(timer, d).ret ELSE "void"
        /\ op' = "set"
        /\ prev_op' = op
        /\ duration' = d
        /\ ndec' = IF InRange(d) THEN 0 ELSE -1
        /\ cfg' = IF InRange(d) THEN d ELSE 0
        /\ napplied' = 0
        /\ nfired' = 0
        /\ UNCHANGED variant

\* decrement(): decrementTimer of either file
Decrement ==
    /\ state' = IF Modes THEN decrementTimer(state) ELSE state
    /\ timer' = IF Plain THEN decrementTimer0(timer).timer ELSE timer
    /\ ret' = IF Plain THEN decrementTimer0(timer).ret ELSE "void"
    /\ op' = "decrement"
    /\ prev_op' = op
    /\ IF op \in {"set", "decrement"} /\ ndec >= 0 /\ ndec < duration
       THEN ndec' = ndec + 1 /\ duration' = duration
       ELSE EndRun
    /\ napplied' = IF cfg > 0 /\ DecrementApplies
                   THEN Min(napplied + 1, cfg + 1)
                   ELSE napplied
    /\ UNCHANGED <<variant, cfg, nfired>>

\* increment(): incrementStopwatch; src/unnamed/part_000 has no such function
Increment ==
    /\ Modes
    /\ (state.timer_enabled /\ state.timer_mode = MODE_STOPWATCH)
           => state.timer_value < MAX_DURATION + Overshoot
    /\ state' = incrementStopwatch(state)
    /\ ret' = "void"
    /\ op' = "increment"
    /\ prev_op' = op
    /\ EndRun
    /\ UNCHANGED <<variant, timer, cfg, napplied, nfired>>

\* checkAndTriggerInterrupt(): triggerInterrupt of either file
CheckAndTriggerInterrupt ==
    /\ state' = IF Modes THEN triggerInterrupt(state) ELSE state
    /\ timer' = IF Plain THEN triggerInterrupt0(timer).timer ELSE timer
    /\ ret' = IF Plain THEN triggerInterrupt0(timer).ret ELSE "void"
    /\ op' = "trigger"
    /\ prev_op' = op
    /\ IF op = "decrement" /\ ndec >= 1 /\ ndec = duration
       THEN ndec' = ndec /\ duration' = duration
       ELSE EndRun
    /\ nfired' = IF cfg > 0 /\ TriggerFires
                 THEN Min(nfired + 1, 2)
                 ELSE nfired
    /\ UNCHANGED <<variant, cfg, napplied>>

\* reset(): resetTimer of either file
Reset ==
    /\ state' = IF Modes THEN resetTimer(state) ELSE state
    /\ timer' = IF Plain THEN resetTimer0(timer) ELSE timer
    /\ ret' = "void"
    /\ op' = "reset"
    /\ prev_op' = op
    /\ EndRun
    /\ NoCountdown
    /\ UNCHANGED variant

Next ==
    \/ ConfigureCountdown
    \/ Decrement
    \/ Increment
    \/ CheckAndTriggerInterrupt
    \/ Reset

NoCallYet ==
    /\ op = "none"
    /\ prev_op = "none"
    /\ ret = "void"
    /\ duration = 0
    /\ ndec = -1
    /\ cfg = 0
    /\ napplied = 0
    /\ nfired = 0

\* After initTimer (main of src/unnamed/part_000 calls it first), for a
\* driver of either file.
Init ==
    /\ variant \in {"modes", "plain"}
    /\ state = initTimer
    /\ timer = initTimer0
    /\ NoCallYet

Spec == Init /\ [][Next]_vars

\* The functions are total over the structure's contents, which the caller
\* owns: here the first call finds any contents with the value in range.
InitAny ==
    /\ variant \in {"modes", "plain"}
    /\ IF variant = "modes"
       THEN /\ state \in [timer_value : 0..MAX_DURATION,
                          timer_enabled : BOOLEAN,
                          interrupt_flag : BOOLEAN,
                          timer_mode : TimerMode]
            /\ timer = initTimer0
       ELSE /\ state = initTimer
            /\ timer \in [value : 0..MAX_DURATION0,
                          enabled : BOOLEAN,
                          interrupt_flag : BOOLEAN]
    /\ NoCallYet

SpecAny == InitAny /\ [][Next]_vars

\* configureStopwatch() as spec.md 4.1 describes it.  No source file has
\* such a function: nothing in src/timer.c assigns MODE_STOPWATCH.
configureStopwatch(s) ==
    [s EXCEPT !.timer_value = 0,
              !.timer_enabled = TRUE,
              !.interrupt_flag = FALSE,
              !.timer_mode = MODE_STOPWATCH]

\* initialize(); configureStopwatch() of spec.md 8, then the calls of
\* src/timer.c.
InitStopwatch ==
    /\ variant = "modes"
    /\ state = configureStopwatch(initTimer)
    /\ timer = initTimer0
    /\ NoCallYet

SpecStopwatch == InitStopwatch /\ [][Next]_vars

\* main of src/unnamed/part_000.  Its place in the program shows in the
\* call made last: after setTimer or triggerInterrupt it stands at the test
\* of the while loop.  main passes 5 to setTimer; here the duration is any
\* of Durations.  The printf calls change no state.
AtLoopTest == op \in {"set", "trigger"}

\* src/unnamed/part_000:114
MainSetTimer ==
    /\ op = "none"
    /\ ConfigureCountdown

\* src/unnamed/part_000:120-121
MainDecrement ==
    /\ AtLoopTest
    /\ timer.enabled
    /\ Decrement

\* src/unnamed/part_000:125
MainTriggerInterrupt ==
    /\ op = "decrement"
    /\ CheckAndTriggerInterrupt

\* src/unnamed/part_000:120, 131
MainReset ==
    /\ AtLoopTest
    /\ ~timer.enabled
    /\ Reset

NextMain ==
    \/ MainSetTimer
    \/ MainDecrement
    \/ MainTriggerInterrupt
    \/ MainReset

\* src/unnamed/part_000:109-110
InitMain ==
    /\ variant = "plain"
    /\ state = initTimer
    /\ timer = initTimer0
    /\ NoCallYet

\* A sequential program: main keeps running until it returns.
SpecMain == InitMain /\ [][NextMain]_vars /\ WF_vars(NextMain)

\* Both files driven side by side from initTimer.
InitBoth ==
    /\ variant = "both"
    /\ state = initTimer
    /\ timer = initTimer0
    /\ NoCallYet

SpecBoth == InitBoth /\ [][Next]_vars

\* Both files driven side by side from initTimer, with one MAX_DURATION.
InitSame ==
    /\ variant = "same"
    /\ state = initTimer
    /\ timer = initTimer0
    /\ NoCallYet

SpecSame == InitSame /\ [][Next]_vars

\* The structures hold what their types allow (the stopwatch may pass
\* MAX_DURATION, up to where the model stops it).
TypeOK ==
    /\ variant \in {"modes", "plain", "both", "same"}
    /\ state \in TimerState
    /\ timer \in Timer
    /\ op \in {"none", "set", "decrement", "increment", "trigger", "reset"}
    /\ prev_op \in {"none", "set", "decrement", "increment", "trigger", "reset"}
    /\ ret \in {"true", "false", "void"}
    /\ duration \in Durations \cup {0}
    /\ ndec \in -1..(MAX_DURATION0)
    /\ cfg \in 0..MAX_DURATION0
    /\ napplied \in 0..cfg
    /\ nfired \in 0..1

----------------------------------------------------------------------------
(* Properties.  A field or a result that one file does not have (the mode  *)
(* in src/unnamed/part_000, a returned status in src/timer.c) is stated of *)
(* the file that has it.                                                   *)

\* The guard of decrement in each file.
CanDecrement == state.timer_enabled /\ state.timer_mode = MODE_COUNTDOWN /\ state.timer_value > 0
CanDecrement0 == timer.enabled /\ timer.value > 0

\* The guard of the interrupt check in each file.
CanTrigger == state.timer_enabled /\ state.timer_mode = MODE_COUNTDOWN /\ state.timer_value = 0
CanTrigger0 == timer.enabled /\ timer.value = 0

\* C1: in every state reachable from initialize() by any sequence of
\* operations, value is within [0, MAX_DURATION].
C1_ValueInRange ==
    /\ Modes => state.timer_value \in 0..MAX_DURATION
    /\ Plain => timer.value \in 0..MAX_DURATION0

\* increment() was called on a countdown standing at the ceiling.
C1_Witness ==
    /\ variant = "modes"
    /\ op = "increment"
    /\ prev_op = "set"
    /\ state.timer_enabled
    /\ state.timer_value = MAX_DURATION

\* C2: increment() saturates at MAX_DURATION: with enabled and mode
\* Stopwatch it yields value' = min(value + 1, MAX_DURATION), so at the
\* ceiling the value stays MAX_DURATION.
C2_IncrementSaturates ==
    [][(/\ Modes
        /\ op' = "increment"
        /\ state.timer_enabled
        /\ state.timer_mode = MODE_STOPWATCH)
         => state'.timer_value = Min(state.timer_value + 1, MAX_DURATION)]_vars

\* C3: configureCountdown(d) with d < 1 or d > MAX_DURATION leaves every
\* field as it was and reports rejection (returns false).
C3_RejectedConfigureLeavesState ==
    [][op' = "set" =>
        /\ (Modes /\ (duration' < 1 \/ duration' > MAX_DURATION))
             => state' = state
        /\ (Plain /\ (duration' < 1 \/ duration' > MAX_DURATION0))
             => (timer' = timer /\ ret' = "false")]_vars

\* A running countdown was configured with MAX_DURATION + 1 and rejected it.
C3_Witness ==
    /\ variant = "plain"
    /\ op = "set"
    /\ duration = MAX_DURATION0 + 1
    /\ ret = "false"
    /\ timer.enabled
    /\ timer.value > 0

\* C4: for 1 <= d <= MAX_DURATION, from any state, configureCountdown(d)
\* followed by exactly d calls of decrement() yields value 0, enabled, mode
\* Countdown, no interrupt flag; the interrupt check that follows fires and
\* yields interrupt flag set, not enabled, mode Disabled, value 0.
C4_CountdownRun ==
    /\ (op = "decrement" /\ InRange(duration) /\ ndec = duration) =>
          /\ Modes => state = [timer_value |-> 0, timer_enabled |-> TRUE,
                               interrupt_flag |-> FALSE,
                               timer_mode |-> MODE_COUNTDOWN]
          /\ Plain => timer = [value |-> 0, enabled |-> TRUE,
                               interrupt_flag |-> FALSE]
    /\ (op = "trigger" /\ InRange(duration) /\ ndec = duration) =>
          /\ Modes => state = [timer_value |-> 0, timer_enabled |-> FALSE,
                               interrupt_flag |-> TRUE,
                               timer_mode |-> MODE_DISABLED]
          /\ Plain => (/\ timer = [value |-> 0, enabled |-> FALSE,
                                   interrupt_flag |-> TRUE]
                       /\ ret = "true")

\* configureCountdown(MAX_DURATION), MAX_DURATION decrements and the
\* interrupt check have run.
C4_Witness ==
    /\ variant = "modes"
    /\ op = "trigger"
    /\ duration = MAX_DURATION
    /\ ndec = MAX_DURATION
    /\ state.interrupt_flag

\* C5: for every state and every d with 1 <= d <= MAX_DURATION,
\* configureCountdown(d) succeeds and leaves exactly value d, enabled,
\* interrupt flag clear, mode Countdown.
C5_ConfigureSets ==
    (op = "set" /\ InRange(duration)) =>
        /\ Modes => state = [timer_value |-> duration, timer_enabled |-> TRUE,
                             interrupt_flag |-> FALSE,
                             timer_mode |-> MODE_COUNTDOWN]
        /\ Plain => (/\ timer = [value |-> duration, enabled |-> TRUE,
                                 interrupt_flag |-> FALSE]
                     /\ ret = "true")

\* A timer was configured right after an interrupt check.
C5_Witness ==
    /\ variant = "modes"
    /\ op = "set"
    /\ prev_op = "trigger"
    /\ duration = MAX_DURATION
    /\ state.timer_value = MAX_DURATION

\* C6: decrement() changes no field whenever mode is not Countdown, or the
\* timer is not enabled, or value is 0.
C6_DecrementNoOp ==
    [][op' = "decrement" =>
        /\ (Modes /\ ~CanDecrement) => state' = state
        /\ (Plain /\ ~CanDecrement0) => (timer' = timer /\ ret' = "false")]_vars

\* decrement() was called on an enabled stopwatch holding a positive value.
C6_Witness ==
    /\ variant = "modes"
    /\ op = "decrement"
    /\ state.timer_enabled
    /\ state.timer_mode = MODE_STOPWATCH
    /\ state.timer_value > 0

\* C7: checkAndTriggerInterrupt() fires exactly when enabled, mode Countdown
\* and value 0: it then sets the interrupt flag, clears enabled, sets mode
\* Disabled, keeps the value and returns true; otherwise it changes nothing
\* and returns false.  So (Countdown, value 0, enabled) never survives it.
C7_TriggerExactly ==
    [][op' = "trigger" =>
        /\ Modes =>
             /\ IF CanTrigger
                THEN state' = [timer_value |-> state.timer_value,
                               timer_enabled |-> FALSE,
                               interrupt_flag |-> TRUE,
                               timer_mode |-> MODE_DISABLED]
                ELSE state' = state
             /\ ~CanTrigger'
        /\ Plain =>
             /\ IF CanTrigger0
                THEN /\ timer' = [value |-> timer.value, enabled |-> FALSE,
                                  interrupt_flag |-> TRUE]
                     /\ ret' = "true"
                ELSE /\ timer' = timer
                     /\ ret' = "false"
             /\ ~CanTrigger0']_vars

\* The interrupt check fired on a countdown that had just reached 0.
C7_Witness ==
    /\ variant = "modes"
    /\ op = "trigger"
    /\ prev_op = "decrement"
    /\ state.interrupt_flag
    /\ ~state.timer_enabled
    /\ state.timer_mode = MODE_DISABLED

\* C8: of two interrupt checks in succession, the second returns false and
\* leaves every field as the first left it.
C8_TriggerTwice ==
    [][(op = "trigger" /\ op' = "trigger") =>
        /\ state' = state
        /\ timer' = timer
        /\ Plain => ret' = "false"]_vars

\* A second interrupt check directly followed one that fired.
C8_Witness ==
    /\ variant = "plain"
    /\ op = "trigger"
    /\ prev_op = "trigger"
    /\ ret = "false"
    /\ timer.interrupt_flag

\* C9: reset() in any state produces the state of a fresh initialize():
\* value 0, not enabled, interrupt flag clear, mode Disabled.
C9_ResetIsInit ==
    op = "reset" =>
        /\ Modes => (/\ state = initTimer
                     /\ state.timer_value = 0
                     /\ ~state.timer_enabled
                     /\ ~state.interrupt_flag
                     /\ state.timer_mode = MODE_DISABLED)
        /\ Plain => (/\ timer = initTimer0
                     /\ timer.value = 0
                     /\ ~timer.enabled
                     /\ ~timer.interrupt_flag)

\* reset() was called right after an interrupt check.
C9_Witness ==
    /\ variant = "modes"
    /\ op = "reset"
    /\ prev_op = "trigger"

\* C10: the interrupt flag goes from false to true only in an interrupt
\* check taken with mode Countdown, enabled and value 0; it goes from true
\* to false only in an accepted configure or a reset, so it stays true
\* across decrement, increment, interrupt checks and rejected configures.
C10_FlagLatch ==
    [][/\ Modes =>
            /\ (~state.interrupt_flag /\ state'.interrupt_flag)
                 => (op' = "trigger" /\ CanTrigger)
            /\ (state.interrupt_flag /\ ~state'.interrupt_flag)
                 => \/ op' = "reset"
                    \/ op' = "set" /\ duration' \in 1..MAX_DURATION
       /\ Plain =>
            /\ (~timer.interrupt_flag /\ timer'.interrupt_flag)
                 => (op' = "trigger" /\ CanTrigger0)
            /\ (timer.interrupt_flag /\ ~timer'.interrupt_flag)
                 => \/ op' = "reset"
                    \/ op' = "set" /\ duration' \in 1..MAX_DURATION0]_vars

\* A latched interrupt flag outlived a decrement call.
C10_Witness ==
    /\ variant = "plain"
    /\ op = "decrement"
    /\ prev_op = "trigger"
    /\ timer.interrupt_flag

\* C11: in every state reachable from initialize(), mode Disabled implies
\* not enabled.
C11_DisabledNotEnabled ==
    Modes => (state.timer_mode = MODE_DISABLED => ~state.timer_enabled)

\* The interrupt check has just fired and left the mode Disabled.
C11_Witness ==
    /\ variant = "modes"
    /\ op = "trigger"
    /\ state.timer_mode = MODE_DISABLED
    /\ state.interrupt_flag

\* C13: a decrement() that takes value to exactly 0 does not fire the
\* interrupt: every decrement() step leaves interrupt flag, enabled and mode
\* as they were.
C13_DecrementKeepsFlags ==
    [][op' = "decrement" =>
        /\ Modes => (/\ state'.interrupt_flag = state.interrupt_flag
                     /\ state'.timer_enabled = state.timer_enabled
                     /\ state'.timer_mode = state.timer_mode)
        /\ Plain => (/\ timer'.interrupt_flag = timer.interrupt_flag
                     /\ timer'.enabled = timer.enabled)]_vars

\* The last decrement of a countdown took the value to 0 and the timer is
\* still enabled, in Countdown mode, with no interrupt flag.
C13_Witness ==
    /\ variant = "modes"
    /\ op = "decrement"
    /\ ndec >= 1
    /\ ndec = duration
    /\ state.timer_value = 0
    /\ state.timer_enabled
    /\ state.timer_mode = MODE_COUNTDOWN
    /\ ~state.interrupt_flag

\* C16: enabled with mode Disabled is never reached from initialize():
\* enabled implies a mode other than Disabled, and with the converse,
\* enabled holds exactly when the mode is Countdown or Stopwatch.
C16_EnabledIffActiveMode ==
    Modes => (state.timer_enabled
                <=> state.timer_mode \in {MODE_COUNTDOWN, MODE_STOPWATCH})

\* A countdown is running after an accepted configure.
C16_Witness ==
    /\ variant = "modes"
    /\ op = "set"
    /\ state.timer_enabled
    /\ state.timer_mode = MODE_COUNTDOWN

\* C18: in every state reachable from initialize(), enabled and interrupt
\* flag are never both true.
C18_NotEnabledAndFlag ==
    /\ Modes => ~(state.timer_enabled /\ state.interrupt_flag)
    /\ Plain => ~(timer.enabled /\ timer.interrupt_flag)

\* A timer whose interrupt was latched has been configured again.
C18_Witness ==
    /\ variant = "plain"
    /\ op = "set"
    /\ prev_op = "trigger"
    /\ ret = "true"
    /\ timer.enabled

\* C19: in src/timer.c no sequence of operations from initTimer reaches
\* MODE_STOPWATCH; so in every reachable state incrementStopwatch changes
\* no field and the mode is MODE_DISABLED or MODE_COUNTDOWN.
C19_StopwatchUnreachable ==
    Modes => /\ state.timer_mode \in {MODE_DISABLED, MODE_COUNTDOWN}
             /\ incrementStopwatch(state) = state

\* incrementStopwatch was called on a running countdown.
C19_Witness ==
    /\ variant = "modes"
    /\ op = "increment"
    /\ state.timer_enabled
    /\ state.timer_mode = MODE_COUNTDOWN
    /\ state.timer_value > 0

\* C15: every operation has exactly two outcomes, applied or no change, and
\* its returned status tells them apart: configureCountdown returns true iff
\* the duration was accepted and the state set, decrement returns true iff
\* value went down by exactly 1, checkAndTriggerInterrupt returns true iff
\* the interrupt fired; whenever false is returned no field has changed.
C15_TwoOutcomes ==
    [][/\ (Plain /\ op' = "set") =>
            /\ ret' \in {"true", "false"}
            /\ ret' = "true" <=> duration' \in 1..MAX_DURATION0
            /\ ret' = "true" => timer' = [value |-> duration',
                                          enabled |-> TRUE,
                                          interrupt_flag |-> FALSE]
       /\ (Plain /\ op' = "decrement") =>
            /\ ret' \in {"true", "false"}
            /\ ret' = "true" <=> timer'.value = timer.value - 1
            /\ ret' = "true" => timer' = [timer EXCEPT !.value = timer.value - 1]
       /\ (Plain /\ op' = "trigger") =>
            /\ ret' \in {"true", "false"}
            /\ ret' = "true" <=> (/\ timer.enabled
                                  /\ ~timer'.enabled
                                  /\ timer'.interrupt_flag)
            /\ ret' = "true" => timer' = [timer EXCEPT !.interrupt_flag = TRUE,
                                                       !.enabled = FALSE]
       /\ (Plain /\ ret' = "false") => timer' = timer
       /\ (Modes /\ op' = "set") =>
            \/ state' = state
            \/ state' = [timer_value |-> duration', timer_enabled |-> TRUE,
                         interrupt_flag |-> FALSE,
                         timer_mode |-> MODE_COUNTDOWN]
       /\ (Modes /\ op' = "decrement") =>
            \/ state' = state
            \/ state' = [state EXCEPT !.timer_value = state.timer_value - 1]
       /\ (Modes /\ op' = "increment") =>
            \/ state' = state
            \/ state' = [state EXCEPT !.timer_value = state.timer_value + 1]
       /\ (Modes /\ op' = "trigger") =>
            \/ state' = state
            \/ state' = [state EXCEPT !.interrupt_flag = TRUE,
                                      !.timer_enabled = FALSE,
                                      !.timer_mode = MODE_DISABLED]]_vars

\* decrement() was called on an enabled timer standing at 0 and returned
\* false.
C15_Witness ==
    /\ variant = "plain"
    /\ op = "decrement"
    /\ ret = "false"
    /\ timer.enabled
    /\ timer.value = 0

\* C12: configureStopwatch() sets value 0, enabled, interrupt flag clear,
\* mode Stopwatch, and the run initialize(); configureStopwatch();
\* increment() x (MAX_DURATION + 5) ends with value MAX_DURATION and the
\* interrupt flag false all along: while the stopwatch set up this way
\* runs, value never passes MAX_DURATION and no interrupt is set.
C12_StopwatchScenario ==
    (/\ Modes
     /\ state.timer_mode = MODE_STOPWATCH
     /\ op \in {"none", "increment"}
     /\ prev_op \in {"none", "increment"})
        => /\ state.timer_enabled
           /\ state.timer_value <= MAX_DURATION
           /\ ~state.interrupt_flag

\* C14: the driver loop 'while enabled: decrement(); interrupt check'
\* terminates for every configuration.  After an accepted
\* configureCountdown(d) every iteration decrements, the interrupt fires
\* once, in the d-th iteration, and the loop exits there with the interrupt
\* flag set and the timer disabled; after a rejected configureCountdown on a
\* fresh timer the loop body is never entered.
C14_DriverLoop ==
    /\ <>(op = "reset")
    /\ [](/\ op = "decrement" =>
               /\ cfg > 0
               /\ ret = "true"
               /\ timer.value = cfg - napplied
          /\ (op = "trigger" /\ ret = "false") =>
               /\ timer.enabled
               /\ napplied < cfg
               /\ nfired = 0
          /\ (op = "trigger" /\ ret = "true") =>
               /\ napplied = cfg
               /\ nfired = 1
               /\ timer.interrupt_flag
               /\ ~timer.enabled
          /\ (op = "set" /\ ret = "false") => ~timer.enabled)
    /\ [][/\ (op = "set" /\ ret = "false") => op' = "reset"
          /\ (op = "trigger" /\ ret = "true") => op' = "reset"]_vars

\* The loop has left after MAX_DURATION iterations, the interrupt fired.
C14_Witness ==
    /\ op = "trigger"
    /\ ret = "true"
    /\ cfg = MAX_DURATION0
    /\ napplied = MAX_DURATION0
    /\ ~timer.enabled
    /\ timer.interrupt_flag

\* C17: between an accepted configureCountdown(d) and the next configure or
\* reset, under any interleaving of decrement, increment and interrupt
\* checks, the interrupt fires at most once, not before exactly d
\* decrements have been applied, and value never increases.
C17_CountdownMonotone ==
    [][(cfg > 0 /\ op' \in {"decrement", "increment", "trigger"}) =>
        /\ nfired' <= 1
        /\ nfired' > nfired => napplied = cfg
        /\ napplied' <= cfg
        /\ Modes => state'.timer_value <= state.timer_value
        /\ Plain => timer'.value <= timer.value]_vars

\* After a countdown from MAX_DURATION fired its interrupt, increment was
\* called.
C17_Witness ==
    /\ variant = "modes"
    /\ op = "increment"
    /\ cfg = MAX_DURATION
    /\ napplied = MAX_DURATION
    /\ nfired = 1
    /\ state.interrupt_flag

\* What the two files share holds the same.
Agree ==
    /\ timer.value = state.timer_value
    /\ timer.enabled = state.timer_enabled
    /\ timer.interrupt_flag = state.interrupt_flag

\* C20: with the same MAX_DURATION, the two files run side by side on the
\* same sequence of calls keep value, enabled and interrupt flag equal
\* after every call, with timer_mode MODE_COUNTDOWN exactly when enabled.
C20_VariantsAgree ==
    /\ Agree
    /\ state.timer_mode = MODE_COUNTDOWN <=> state.timer_enabled

\* Both files have just fired the interrupt of the same countdown.
C20_Witness ==
    /\ variant = "same"
    /\ op = "trigger"
    /\ ret = "true"
    /\ cfg = MAX_DURATION
    /\ state.interrupt_flag
    /\ timer.interrupt_flag

\* The files as they stand (MAX_DURATION 10 and 255) driven side by side:
\* they agree until a duration only one of them accepts is configured.
AgreeAsBuilt == [][(Agree /\ ~Agree') => (op' = "set" /\ duration' > MAX_DURATION)]_vars

====
